---------------------------- MODULE Spec2Model ----------------------------
(***************************************************************************)
(* The seven Map<u32, V> variants of src/src/lib.rs (LinearMap, BinaryMap, *)
(* KvMap, SimdMap16, SimdMap8, HashMap, BTreeMap), driven in lockstep by   *)
(* the same sequence of insert/find calls, and the benchmark driver of     *)
(* src/benches/map.rs (fill, run_one).                                     *)
(*                                                                         *)
(* Vec<T> is a TLA+ sequence; a Rust index i is the TLA+ index i + 1.      *)
(* Option<&V> is a sequence of length 0 (None) or 1 (Some).                *)
(* V is opaque to the maps (no bound on V): outside the benchmark driver   *)
(* each insert call carries as payload the ordinal of the call, so that    *)
(* every record is distinguishable from every other.                       *)
(***************************************************************************)
EXTENDS Integers, Sequences, FiniteSets, TLC

VARIABLES linear, binary, kv, simd16, simd8, hash, btree,
          bsearch, log, small, last, pc, n, fill_index, index

maps == <<linear, binary, kv, simd16, simd8, hash, btree>>
vars == <<linear, binary, kv, simd16, simd8, hash, btree,
          bsearch, log, small, last, pc, n, fill_index, index>>

---------------------------------------------------------------------------
\* Bounds of the model.

\* Spec: keys of insert calls are drawn from 0 .. MaxKey.
MaxKey == 2
\* Spec: number of insert calls in a run.
MaxLen == 4
\* SpecBlocks: number of insert calls in a run (one more than 16 lanes).
MaxInserts == 17
\* SpecBlocks: how many of the insert calls of a run take a key of BlockKeys
\* (the others take a key never used before).
MaxSmall == 2
\* SpecBench: number of iterations of the timed closure.
MaxIters == 55

\* Program constants.
Lanes16 == 16
Lanes8 == 8

SmallKeys == 0 .. MaxKey
\* SpecBlocks: the keys that may repeat, 0 (the value of a padding slot) and
\* one other key.
BlockKeys == {0, 1}
\* The key of the (c+1)-th call when it is a key never used before: above
\* BlockKeys.
FreshKey(c) == c + 2
\* SpecBlocks: the slots (Rust indices of keys) that may take a key of
\* BlockKeys: the first two slots, and the last slot of the first block and
\* the first slot of the next at either lane width.
BlockSlots == {0, 1, Lanes8 - 1, Lanes8, Lanes16 - 1, Lanes16}
\* Every key a run of SpecBlocks can insert, and one it cannot.
AllKeys == 0 .. (MaxInserts + 2)
\* Every key a run of Spec can insert, and one it cannot.
QueryKeys == 0 .. (MaxKey + 1)
\* The element counts of the benchmark.
BenchSizes == {1, 5, 10, 15, 30, 50}

---------------------------------------------------------------------------
\* Option<&V> and Vec helpers.

None == <<>>
Some(v) == <<v>>

\* Vec::get(i), i a Rust (0-based) index.
Get(s, i) == IF i < Len(s) THEN Some(s[i + 1]) ELSE None

Zeros(w) == [i \in 1 .. w |-> 0]

---------------------------------------------------------------------------
\* LinearMap

LinearMap_default == <<>>

LinearMap_insert_replacing(data, key, value) ==
    IF \E i \in DOMAIN data : data[i][1] = key
    THEN [i \in DOMAIN data |->
            IF data[i][1] = key THEN <<key, value>> ELSE data[i]]
    ELSE Append(data, <<key, value>>)

LinearMap_insert(data, key, value) == Append(data, <<key, value>>)

\* Iterator::find over Vec<(K, V)>: the first index (1-based) from i on whose
\* entry has the key, 0 when there is none.
RECURSIVE IterFind(_, _, _)
IterFind(data, i, key) ==
    IF i > Len(data) THEN 0
    ELSE IF data[i][1] = key THEN i
    ELSE IterFind(data, i + 1, key)

LinearMap_find(data, key) ==
    LET at == IterFind(data, 1, key)
    IN  IF at = 0 THEN None ELSE Some(data[at][2])

---------------------------------------------------------------------------
\* KvMap

KvMap_default == [keys |-> <<>>, values |-> <<>>]

KvMap_insert(m, key, value) ==
    [keys |-> Append(m.keys, key), values |-> Append(m.values, value)]

\* Iterator::position over Vec<K>: the first Rust index from i on that holds
\* the key, -1 when there is none.
RECURSIVE IterPosition(_, _, _)
IterPosition(keys, i, key) ==
    IF i >= Len(keys) THEN -1
    ELSE IF keys[i + 1] = key THEN i
    ELSE IterPosition(keys, i + 1, key)

KvMap_find(m, key) ==
    LET at == IterPosition(m.keys, 0, key)
    IN  IF at < 0 THEN None ELSE Some(m.values[at + 1])

---------------------------------------------------------------------------
\* BinaryMap

BinaryMap_default == <<>>

Remove(s, i) == [j \in 1 .. (Len(s) - 1) |-> IF j < i THEN s[j] ELSE s[j + 1]]

\* Every order of the elements of s.
RECURSIVE Orders(_)
Orders(s) ==
    IF s = <<>> THEN {<<>>}
    ELSE UNION {{<<s[i]>> \o t : t \in Orders(Remove(s, i))} : i \in DOMAIN s}

MinKey(data) ==
    CHOOSE k \in {data[i][1] : i \in DOMAIN data} :
        \A i \in DOMAIN data : k <= data[i][1]

\* slice::sort_unstable_by on the key: the result is in ascending key order
\* and the order of records with equal keys is not specified, so every
\* arrangement of each run of equal keys is a possible result.
RECURSIVE SortUnstableByKey(_)
SortUnstableByKey(data) ==
    IF data = <<>> THEN {<<>>}
    ELSE LET k    == MinKey(data)
             run  == SelectSeq(data, LAMBDA e : e[1] = k)
             rest == SelectSeq(data, LAMBDA e : e[1] # k)
         IN  {r \o t : r \in Orders(run), t \in SortUnstableByKey(rest)}

\* The push without the sort.
BinaryMap_insert_unsorted(data, key, value) == {Append(data, <<key, value>>)}

\* The set of vectors insert may leave.
BinaryMap_insert(data, key, value) ==
    SortUnstableByKey(Append(data, <<key, value>>))

\* slice::binary_search_by of the standard library, which "if there are
\* multiple matches" may return "any one of the matches".  Its two published
\* implementations follow; which one a build gets is fixed per build (bsearch).
\* Both return the Rust index of a hit and -1 for Err(_).

\* The loop that halves size and keeps base at the last probe not Greater.
RECURSIVE HalvingLoop(_, _, _, _)
HalvingLoop(data, key, base, size) ==
    IF size > 1
    THEN LET half == size \div 2
             mid  == base + half
         IN  HalvingLoop(data, key,
                         IF data[mid + 1][1] > key THEN base ELSE mid,
                         size - half)
    ELSE base

SearchHalving(data, key) ==
    IF Len(data) = 0 THEN -1
    ELSE LET base == HalvingLoop(data, key, 0, Len(data))
         IN  IF data[base + 1][1] = key THEN base ELSE -1

\* The loop that narrows [left, right) and returns at the first Equal probe.
RECURSIVE BisectLoop(_, _, _, _)
BisectLoop(data, key, left, right) ==
    IF left < right
    THEN LET mid == left + ((right - left) \div 2)
         IN  IF data[mid + 1][1] < key THEN BisectLoop(data, key, mid + 1, right)
             ELSE IF data[mid + 1][1] > key THEN BisectLoop(data, key, left, mid)
             ELSE mid
    ELSE -1

SearchBisect(data, key) == BisectLoop(data, key, 0, Len(data))

BinarySearchImpls == {"halving", "bisect"}

\* The search with the comparator's operands exchanged (key.cmp(&entry.0)).
RECURSIVE BisectLoop_exchanged(_, _, _, _)
BisectLoop_exchanged(data, key, left, right) ==
    IF left < right
    THEN LET mid == left + ((right - left) \div 2)
         IN  IF key < data[mid + 1][1]
             THEN BisectLoop_exchanged(data, key, mid + 1, right)
             ELSE IF key > data[mid + 1][1]
             THEN BisectLoop_exchanged(data, key, left, mid)
             ELSE mid
    ELSE -1

BinarySearchBy_exchanged(data, key, impl) ==
    BisectLoop_exchanged(data, key, 0, Len(data))

BinarySearchBy(data, key, impl) ==
    IF impl = "halving" THEN SearchHalving(data, key)
    ELSE SearchBisect(data, key)

BinaryMap_find(data, key, impl) ==
    LET found == BinarySearchBy(data, key, impl)
    IN  IF found >= 0 THEN Some(data[found + 1][2]) ELSE None

---------------------------------------------------------------------------
\* SimdMap16 and SimdMap8: the same code at lane widths 16 and 8.

SimdMap_default == [keys |-> <<>>, next |-> 0, values |-> <<>>]

\* insert that grows keys one call early.
SimdInsert_early(m, w, key, value) ==
    LET grown == IF m.next + 1 >= Len(m.keys) THEN m.keys \o Zeros(w) ELSE m.keys
    IN  [keys   |-> [grown EXCEPT ![m.next + 1] = key],
         next   |-> m.next + 1,
         values |-> Append(m.values, value)]

SimdInsert(m, w, key, value) ==
    LET grown == IF m.next = Len(m.keys) THEN m.keys \o Zeros(w) ELSE m.keys
    IN  [keys   |-> [grown EXCEPT ![m.next + 1] = key],
         next   |-> m.next + 1,
         values |-> Append(m.values, value)]

\* uNN::from_slice_unaligned(&keys[offset..]).eq(splat(key)).bitmask():
\* bit z of the mask is set iff lane z, keys[offset + z], equals key.  The
\* mask is kept as the set of its set bits.
Bitmask(keys, offset, key, w) ==
    {z \in 0 .. (w - 1) : keys[offset + z + 1] = key}

\* trailing_zeros of 0 taken as 0 (the lowest lane).
TrailingZeros_zero(mask, w) ==
    IF mask = {} THEN 0
    ELSE CHOOSE z \in mask : \A y \in mask : z <= y

\* trailing_zeros of a w-bit mask: the lowest set bit, w when the mask is 0.
TrailingZeros(mask, w) ==
    IF mask = {} THEN w
    ELSE CHOOSE z \in mask : \A y \in mask : z <= y

\* The loop of find over the blocks at index, index + w, ...
RECURSIVE SimdScan(_, _, _, _)
SimdScan(m, w, key, offset) ==
    IF offset >= Len(m.keys) THEN None
    ELSE LET zeros == TrailingZeros(Bitmask(m.keys, offset, key, w), w)
         IN  IF zeros < w THEN Get(m.values, offset + zeros)
             ELSE SimdScan(m, w, key, offset + w)

\* The loop with the test zeros <= w.
RECURSIVE SimdScan_le(_, _, _, _)
SimdScan_le(m, w, key, offset) ==
    IF offset >= Len(m.keys) THEN None
    ELSE LET zeros == TrailingZeros(Bitmask(m.keys, offset, key, w), w)
         IN  IF zeros <= w THEN Get(m.values, offset + zeros)
             ELSE SimdScan_le(m, w, key, offset + w)

SimdFind_le(m, w, key) == SimdScan_le(m, w, key, 0)

\* The loop that takes the highest matching lane of a block.
HighestLane(mask, w) ==
    IF mask = {} THEN -1
    ELSE CHOOSE z \in mask : \A y \in mask : y <= z

RECURSIVE SimdScan_highest(_, _, _, _)
SimdScan_highest(m, w, key, offset) ==
    IF offset >= Len(m.keys) THEN None
    ELSE LET lane == HighestLane(Bitmask(m.keys, offset, key, w), w)
         IN  IF lane >= 0 THEN Get(m.values, offset + lane)
             ELSE SimdScan_highest(m, w, key, offset + w)

SimdFind_highest(m, w, key) == SimdScan_highest(m, w, key, 0)

SimdFind(m, w, key) == SimdScan(m, w, key, 0)

SimdMap16_insert(m, key, value) == SimdInsert(m, Lanes16, key, value)
SimdMap16_find(m, key) == SimdFind(m, Lanes16, key)
SimdMap8_insert(m, key, value) == SimdInsert(m, Lanes8, key, value)
SimdMap8_find(m, key) == SimdFind(m, Lanes8, key)

---------------------------------------------------------------------------
\* HashMap and BTreeMap: the standard collections, a finite function from
\* the keys present to their values; insert replaces the value of a key
\* that is present.

Collection_default == <<>>

\* An insert that keeps the value of a key that is present.
Collection_insert_keep(c, key, value) ==
    IF key \in DOMAIN c THEN c
    ELSE [k \in (DOMAIN c) \cup {key} |-> IF k = key THEN value ELSE c[k]]

Collection_insert(c, key, value) ==
    [k \in (DOMAIN c) \cup {key} |-> IF k = key THEN value ELSE c[k]]

Collection_get(c, key) == IF key \in DOMAIN c THEN Some(c[key]) ELSE None

---------------------------------------------------------------------------
\* The state: one map of each variant, all given the same calls.
\*   bsearch     the binary_search_by implementation of the build
\*   log         the (key, value) arguments of the insert calls so far
\*   small       how many of them SpecBlocks drew from BlockKeys
\*   last        the last call: its operation, its key and, for find, what
\*               each variant returned
\*   pc, n, fill_index, index   the benchmark driver (benches/map.rs)

NoResults ==
    [linear |-> None, binary |-> None, kv |-> None, simd16 |-> None,
     simd8 |-> None, hash |-> None, btree |-> None]

\* What find(key) returns on each variant in the current state.
FindAll(key) ==
    [linear |-> LinearMap_find(linear, key),
     binary |-> BinaryMap_find(binary, key, bsearch),
     kv     |-> KvMap_find(kv, key),
     simd16 |-> SimdMap16_find(simd16, key),
     simd8  |-> SimdMap8_find(simd8, key),
     hash   |-> Collection_get(hash, key),
     btree  |-> Collection_get(btree, key)]

\* M::default() of every variant.
Default ==
    /\ linear = LinearMap_default
    /\ binary = BinaryMap_default
    /\ kv = KvMap_default
    /\ simd16 = SimdMap_default
    /\ simd8 = SimdMap_default
    /\ hash = Collection_default
    /\ btree = Collection_default
    /\ bsearch \in BinarySearchImpls
    /\ log = <<>>
    /\ small = 0
    /\ last = [op |-> "none", key |-> 0, res |-> NoResults]

\* map.insert(key, value) on every variant.
InsertAll(key, value) ==
    /\ linear' = LinearMap_insert(linear, key, value)
    /\ binary' \in BinaryMap_insert(binary, key, value)
    /\ kv' = KvMap_insert(kv, key, value)
    /\ simd16' = SimdMap16_insert(simd16, key, value)
    /\ simd8' = SimdMap8_insert(simd8, key, value)
    /\ hash' = Collection_insert(hash, key, value)
    /\ btree' = Collection_insert(btree, key, value)
    /\ log' = Append(log, <<key, value>>)
    /\ last' = [op |-> "insert", key |-> key, res |-> NoResults]

\* map.find(key) on every variant: &self, nothing is written.
FindCall(key) ==
    /\ last' = [op |-> "find", key |-> key, res |-> FindAll(key)]
    /\ UNCHANGED <<maps, log>>

Init ==
    /\ Default
    /\ pc = "calls"
    /\ n = 0
    /\ fill_index = 0
    /\ index = 0

\* insert(key, value), value the ordinal of the call.
Insert(key) ==
    /\ pc = "calls"
    /\ Len(log) < MaxLen
    /\ InsertAll(key, Len(log) + 1)
    /\ UNCHANGED <<bsearch, small, pc, n, fill_index, index>>

\* A find that moves the entry it found to the front of LinearMap's vector.
Find_move_to_front(key) ==
    /\ pc = "calls"
    /\ last' = [op |-> "find", key |-> key, res |-> FindAll(key)]
    /\ LET at == IterFind(linear, 1, key)
       IN  linear' = IF at = 0 THEN linear
                     ELSE <<linear[at]>> \o Remove(linear, at)
    /\ UNCHANGED <<binary, kv, simd16, simd8, hash, btree, log>>
    /\ UNCHANGED <<bsearch, small, pc, n, fill_index, index>>

Find(key) ==
    /\ pc = "calls"
    /\ FindCall(key)
    /\ UNCHANGED <<bsearch, small, pc, n, fill_index, index>>

Next ==
    \/ \E key \in SmallKeys : Insert(key)
    \/ \E key \in QueryKeys : Find(key)

Spec == Init /\ [][Next]_vars

\* SpecBlocks: runs long enough to fill a block of 16 lanes and start the
\* next one.  Each call takes either a key never used before or, up to
\* MaxSmall times in a run and for the slots of BlockSlots, a key of
\* BlockKeys (so keys repeat, within a block and across blocks, and key 0 is
\* inserted at the start, at a block edge or not at all).
InsertFresh ==
    /\ pc = "calls"
    /\ Len(log) < MaxInserts
    /\ InsertAll(FreshKey(Len(log)), Len(log) + 1)
    /\ UNCHANGED <<bsearch, small, pc, n, fill_index, index>>

InsertSmall(key) ==
    /\ pc = "calls"
    /\ Len(log) < MaxInserts
    /\ small < MaxSmall
    /\ Len(log) \in BlockSlots
    /\ InsertAll(key, Len(log) + 1)
    /\ small' = small + 1
    /\ UNCHANGED <<bsearch, pc, n, fill_index, index>>

NextBlocks ==
    \/ InsertFresh
    \/ \E key \in BlockKeys : InsertSmall(key)

SpecBlocks == Init /\ [][NextBlocks]_vars

---------------------------------------------------------------------------
\* The benchmark driver: run_one(b, n) for each n of run's list.

\* V::default()
DefaultValue == 0

InitBench ==
    /\ Default
    /\ pc = "fill"
    /\ n \in BenchSizes
    /\ fill_index = 0
    /\ index = 0

\* A loop over 1 ..= count.
FillInsert_from_one ==
    /\ pc = "fill"
    /\ fill_index < n
    /\ InsertAll(fill_index + 1, DefaultValue)
    /\ fill_index' = fill_index + 1
    /\ UNCHANGED <<bsearch, small, pc, n, index>>

\* fill: one turn of `for index in 0..count { map.insert(index, V::default()) }`
FillInsert ==
    /\ pc = "fill"
    /\ fill_index < n
    /\ InsertAll(fill_index, DefaultValue)
    /\ fill_index' = fill_index + 1
    /\ UNCHANGED <<bsearch, small, pc, n, index>>

\* fill returns the map; run_one sets index = 0.
FillReturn ==
    /\ pc = "fill"
    /\ fill_index = n
    /\ pc' = "iter"
    /\ index' = 0
    /\ UNCHANGED <<maps, bsearch, log, small, last, n, fill_index>>

\* One call of the closure given to b.iter: index += 1; map.find(index % n).
\* index is a u32; the bound MaxIters keeps it far below 2^32, where the
\* addition would overflow.
Iter ==
    /\ pc = "iter"
    /\ index < MaxIters
    /\ index' = index + 1
    /\ last' = [op |-> "find", key |-> index' % n, res |-> FindAll(index' % n)]
    /\ UNCHANGED <<maps, bsearch, log, small, pc, n, fill_index>>

NextBench ==
    \/ FillInsert
    \/ FillReturn
    \/ Iter

SpecBench == InitBench /\ [][NextBench]_vars

---------------------------------------------------------------------------
\* What the insert calls so far say.

LogKeys == {log[i][1] : i \in DOMAIN log}

DistinctKeys ==
    \A i, j \in DOMAIN log : i # j => log[i][1] # log[j][1]

\* The value of the earliest, and of the latest, insert call with key k.
CallsWith(k) == {i \in DOMAIN log : log[i][1] = k}

FirstValue(k) ==
    LET calls == CallsWith(k)
    IN  log[CHOOSE i \in calls : \A j \in calls : i <= j][2]

LastValue(k) ==
    LET calls == CallsWith(k)
    IN  log[CHOOSE i \in calls : \A j \in calls : j <= i][2]

\* How many times record e occurs in vector s.
Count(s, e) == Cardinality({i \in DOMAIN s : s[i] = e})

\* find(k) returns x on every variant.
EveryFind(k, x) ==
    /\ LinearMap_find(linear, k) = x
    /\ BinaryMap_find(binary, k, bsearch) = x
    /\ KvMap_find(kv, k) = x
    /\ SimdMap16_find(simd16, k) = x
    /\ SimdMap8_find(simd8, k) = x
    /\ Collection_get(hash, k) = x
    /\ Collection_get(btree, k) = x

\* find(k) returns x on the variants that scan in insertion order.
EveryScanFind(k, x) ==
    /\ LinearMap_find(linear, k) = x
    /\ KvMap_find(kv, k) = x
    /\ SimdMap16_find(simd16, k) = x
    /\ SimdMap8_find(simd8, k) = x

---------------------------------------------------------------------------
\* C1  Insert-then-find.  When the keys of the insert calls are pairwise
\* distinct, find(k) of every inserted key k returns, on each of the seven
\* variants, the value inserted with k; SpecBlocks runs through 8, 9, 16 and
\* 17 inserted keys, the block edges of SimdMap8 and SimdMap16.
C1_InsertThenFind ==
    DistinctKeys =>
        \A i \in DOMAIN log :
            EveryFind(log[i][1], Some(log[i][2]))

\* 17 distinct keys: the 16th at the last slot of SimdMap16's first block,
\* the 17th at the first slot of the next; key 0 is the 9th, the first slot
\* of SimdMap8's second block.
C1_Witness ==
    /\ DistinctKeys
    /\ Len(log) = Lanes16 + 1
    /\ log[Lanes8 + 1][1] = 0

\* C2  Non-presence.  In every state reachable from the empty map by insert
\* calls (the empty map included), find(k) is absent on every variant for
\* every key k that was never inserted, k = 0 over zeroed padding included.
C2_NonPresence ==
    \A k \in AllKeys :
        k \notin LogKeys => EveryFind(k, None)

\* Key 0 was never inserted and both SIMD maps hold several blocks, the last
\* one with padding slots.
C2_Witness ==
    /\ 0 \notin LogKeys
    /\ Len(log) = Lanes16 + 1
    /\ simd8.next < Len(simd8.keys)
    /\ simd16.next < Len(simd16.keys)
    /\ SimdMap8_find(simd8, 0) = None
    /\ SimdMap16_find(simd16, 0) = None

\* C3  First-match determinism.  On LinearMap, KvMap, SimdMap8 and SimdMap16,
\* find(k) of a key inserted more than once (0 included, in different blocks
\* or the same one) returns the value of the earliest insert call with k.
C3_FirstInsertedWins ==
    \A k \in LogKeys : EveryScanFind(k, Some(FirstValue(k)))

\* The same key is the 1st and the 17th inserted: different blocks at both
\* lane widths, other keys in between.
C3_Witness ==
    /\ Len(log) = Lanes16 + 1
    /\ log[1][1] = log[Lanes16 + 1][1]
    /\ log[2][1] # log[1][1]

SimdLayout(m, w) ==
    /\ Len(m.keys) % w = 0
    /\ 0 <= m.next
    /\ m.next <= Len(m.keys)
    /\ Len(m.values) = m.next
    /\ \A i \in (m.next + 1) .. Len(m.keys) : m.keys[i] = 0

\* keys grows by w slots in a step that starts with next = keys.len(), and
\* by none in any other step.
SimdGrowth(m, mNext, w) ==
    Len(mNext.keys) = Len(m.keys) + (IF m.next = Len(m.keys) THEN w ELSE 0)

\* C4  SIMD layout and padding.  In every reachable state of SimdMap8 and
\* SimdMap16, keys.len() is a multiple of W, 0 <= next <= keys.len(),
\* values.len() = next and keys[next ..] is all 0; and an insert grows keys
\* by exactly W slots when next = keys.len() before the write, by none
\* otherwise.
C4_SimdLayout ==
    [][/\ SimdLayout(simd16, Lanes16) /\ SimdLayout(simd8, Lanes8)
       /\ SimdLayout(simd16, Lanes16)' /\ SimdLayout(simd8, Lanes8)'
       /\ SimdGrowth(simd16, simd16', Lanes16)
       /\ SimdGrowth(simd8, simd8', Lanes8)]_vars

\* SimdMap8 has grown three times and SimdMap16 twice; both end in padding.
C4_Witness ==
    /\ Len(simd8.keys) = 3 * Lanes8
    /\ simd8.next = 2 * Lanes8 + 1
    /\ Len(simd16.keys) = 2 * Lanes16
    /\ simd16.next = Lanes16 + 1

\* C5 as claimed: after n insert calls every one of the seven variants holds
\* exactly n records.
C5_SevenHoldEveryRecord ==
    /\ Len(linear) = Len(log)
    /\ Len(binary) = Len(log)
    /\ Len(kv.values) = Len(log)
    /\ Len(simd16.values) = Len(log)
    /\ Len(simd8.values) = Len(log)
    /\ Cardinality(DOMAIN hash) = Len(log)
    /\ Cardinality(DOMAIN btree) = Len(log)

\* C5  Insertion never overwrites, amended.  The five vector-backed variants
\* keep every record of every insert call in place (n records after n calls,
\* keys may repeat); HashMap and BTreeMap hold one record per distinct key.
C5_VectorsHoldEveryRecord ==
    /\ linear = log
    /\ kv.keys = [i \in DOMAIN log |-> log[i][1]]
    /\ kv.values = [i \in DOMAIN log |-> log[i][2]]
    /\ Len(binary) = Len(log)
    /\ \A i \in DOMAIN log : Count(binary, log[i]) = Count(log, log[i])
    /\ simd16.next = Len(log)
    /\ simd8.next = Len(log)
    /\ simd16.values = kv.values
    /\ simd8.values = kv.values
    /\ \A i \in DOMAIN log :
          simd16.keys[i] = log[i][1] /\ simd8.keys[i] = log[i][1]
    /\ DOMAIN hash = LogKeys
    /\ DOMAIN btree = LogKeys

\* A key was inserted twice among at least three calls.
C5_Witness ==
    /\ ~DistinctKeys
    /\ Len(log) >= 3
    /\ Cardinality(DOMAIN hash) < Len(linear)

\* C6  Replace semantics of the baselines.  find(k) on HashMap and BTreeMap
\* returns the value of the latest insert call with k, where LinearMap,
\* KvMap, SimdMap8 and SimdMap16 return that of the earliest.
C6_BaselinesReplace ==
    \A k \in LogKeys :
        /\ Collection_get(hash, k) = Some(LastValue(k))
        /\ Collection_get(btree, k) = Some(LastValue(k))
        /\ EveryScanFind(k, Some(FirstValue(k)))

\* insert(k, x), an insert of another key, insert(k, y).
C6_Witness ==
    \E i, j, l \in DOMAIN log :
        /\ i < j /\ j < l
        /\ log[i][1] = log[l][1]
        /\ log[j][1] # log[i][1]
        /\ Collection_get(hash, log[i][1]) = Some(log[l][2])
        /\ LinearMap_find(linear, log[i][1]) = Some(log[i][2])

\* C7  Stability under reads.  A find call leaves every variant's state as
\* it was, and what it returned is what find of the same key returns in the
\* state it leaves: finds between two inserts agree, whatever finds precede.
C7_ReadsStable ==
    [][last'.op = "find" =>
          /\ maps' = maps
          /\ \A k \in QueryKeys : k = last'.key => last'.res = FindAll(k)']_vars

\* A find that hit, on maps holding several records.
C7_Witness ==
    /\ last.op = "find"
    /\ Len(log) >= 2
    /\ last.res.linear # None
    /\ last.res.simd8 # None

Sorted(data) ==
    \A i, j \in DOMAIN data : i < j => data[i][1] <= data[j][1]

\* C8  BinaryMap keeps its vector sorted and loses nothing.  After every
\* insert, data is in non-decreasing key order and holds exactly the records
\* inserted so far, each as many times as it was inserted.
C8_SortedNoLoss ==
    /\ Sorted(binary)
    /\ Len(binary) = Len(log)
    /\ \A i \in DOMAIN log : Count(binary, log[i]) = Count(log, log[i])

\* Keys inserted in descending order, then one of them again.
C8_Witness ==
    /\ Len(log) >= 3
    /\ log[1][1] > log[2][1]
    /\ log[3][1] = log[1][1]

\* C9 as claimed: BinaryMap.find(k) returns the value of the record with the
\* smallest index among the records with key k.
C9_SmallestIndex ==
    \A k \in LogKeys :
        BinaryMap_find(binary, k, bsearch) = Some(binary[IterFind(binary, 1, k)][2])

\* C9  BinaryMap matching record, amended.  find(k) of an inserted key
\* returns the value of one of the records with key k in the vector, which
\* need not be the one with the smallest index; of any other key, absent.
C9_SomeMatchingRecord ==
    \A k \in QueryKeys :
        LET r == BinaryMap_find(binary, k, bsearch)
        IN  IF k \in LogKeys
            THEN \E i \in DOMAIN binary : binary[i][1] = k /\ r = Some(binary[i][2])
            ELSE r = None

\* A run of records with one key, of which find returns one that is not the
\* first of the run.
C9_Witness ==
    \E k \in LogKeys :
        /\ Count([i \in DOMAIN log |-> log[i][1]], k) >= 2
        /\ BinaryMap_find(binary, k, bsearch) # None
        /\ BinaryMap_find(binary, k, bsearch) # Some(binary[IterFind(binary, 1, k)][2])

\* C10 as claimed: no insert call and no find call of the benchmark driver
\* has key 0.
C10_NoKeyZero ==
    last.op \in {"insert", "find"} => last.key # 0

\* C10  The keys of the benchmark driver, amended.  fill inserts the keys
\* 0, 1, ..., n - 1 in that order, key 0 first; every find of the timed
\* loop has a key below n that fill inserted (0 whenever index is a multiple
\* of n) and is a hit on every variant.
C10_FindsAreHits ==
    /\ last.op = "insert" => last.key = Len(log) - 1 /\ last.key < n
    /\ LogKeys = 0 .. (fill_index - 1)
    /\ last.op = "find" =>
          /\ last.key < n
          /\ last.key \in LogKeys
          /\ last.key = index % n
          /\ \A v \in DOMAIN last.res : last.res[v] = Some(DefaultValue)

\* find(0) issued by the timed loop on the maps of 50 elements.
C10_Witness ==
    /\ n = 50
    /\ last.op = "find"
    /\ last.key = 0
    /\ index = n
    /\ last.res.simd16 = Some(DefaultValue)

===========================================================================
